---- MODULE Spec2Model ----
(***************************************************************************)
(* Real-time voice changer (src/main.py).                                  *)
(*                                                                         *)
(* Two specifications share the variables below.                           *)
(*   Spec    the run of main(): setup(), update_loop(), the audio I/O      *)
(*           layer delivering hardware blocks, the user interrupt.         *)
(*   SpecFn  the functions shift_formant, shift_pitch and                  *)
(*           process_audio_block applied to inputs drawn from bounded sets.*)
(*                                                                         *)
(* Samples are fixed-point integers (unit 0.1), ratios are pairs           *)
(* <<numerator, denominator>>, so that 1.2 is <<12, 10>>.                  *)
(***************************************************************************)
EXTENDS Integers, Sequences, FiniteSets, TLC

VARIABLES
    \* ---- the run of main() ----
    pc,             \* position of main()/update_loop()
    devices,        \* what sd.query_devices() returns
    default_device, \* sd.default.device, a pair; <<>> is None, <<i>> is index i
    handles,        \* every sd.Stream created so far, in creation order
    stream,         \* update_loop's local `stream`: index into handles, 0 = unbound
    delivered,      \* hardware blocks the I/O layer delivered to the started stream
    invocations,    \* invocations of process_audio_block by the I/O layer
    ticks,          \* completed iterations of the keep-alive loop
    exit_code,      \* -1 while the process lives, else the process exit status
    diag,           \* last diagnostic printed
    \* ---- the functions on bounded inputs ----
    op,             \* which function the harness applies
    fn_pc,          \* position inside the applied function
    audio,          \* argument of shift_formant / shift_pitch
    ratio,          \* formant_factor / pitch_factor
    stretched,      \* shift_formant's local `stretched` (a result record)
    result,         \* what shift_formant / shift_pitch returned or raised
    indata,         \* callback input: frames rows of channel samples
    status,         \* callback status flags (TRUE = some flag set)
    outdata,        \* callback output buffer, frames rows of channel samples
    written,        \* cells of outdata assigned by this callback invocation
    printed,        \* the callback printed the status
    input_audio,    \* callback local
    pitched,        \* callback local
    processed,      \* callback local
    stages,         \* stages the callback has run, in order
    cb_err          \* exception raised by the callback, "none" if none

progVars == <<pc, devices, default_device, handles, stream, delivered,
              invocations, ticks, exit_code, diag>>
fnVars == <<op, fn_pc, audio, ratio, stretched, result, indata, status, outdata,
            written, printed, input_audio, pitched, processed, stages, cb_err>>
vars == <<progVars, fnVars>>

----------------------------------------------------------------------------
\* Bounds of the model.
MaxDevices == 2
MaxBlocks == 3
MaxTicks == 2
MaxFrames == 2

\* Configuration (main.py lines 9-12) and the gain literal of line 38.
SAMPLE_RATE == 44100
BLOCK_SIZE == 1024
PITCH_SHIFT == <<15, 10>>
FORMANT_SHIFT == <<12, 10>>
GAIN == <<12, 10>>

SampleValues == {-10, 0, 10}
ChannelCounts == {1, 2, 3}
FormantRatios == {<<-5, 10>>, <<0, 10>>, <<3, 10>>, <<5, 10>>, <<10, 10>>,
                  <<12, 10>>, <<15, 10>>, <<25, 10>>}
PitchRatios == {<<5, 10>>, <<10, 10>>, <<15, 10>>, <<20, 10>>}

----------------------------------------------------------------------------
\* Arithmetic on ratios.

\* Rounding to the nearest integer where the code truncates.
MutantRoundInt(p, q) ==
    IF p >= 0 THEN (2 * p + q) \div (2 * q) ELSE -((2 * (-p) + q) \div (2 * q))

\* Python int(): truncation toward zero of p/q, q > 0.
IntOf(p, q) == IF p >= 0 THEN p \div q ELSE -((-p) \div q)

\* Python round(): nearest integer, ties to even, of p/q with p >= 0, q > 0.
Round(p, q) ==
    LET f == p \div q
        r2 == 2 * (p % q)
    IN  IF r2 < q THEN f
        ELSE IF r2 > q THEN f + 1
        ELSE IF f % 2 = 0 THEN f ELSE f + 1

\* math.ceil of p/q with p >= 0, q > 0.
Ceil(p, q) == (p + q - 1) \div q

Ok(b) == [err |-> "none", block |-> b]
Raise(e) == [err |-> e, block |-> <<>>]

----------------------------------------------------------------------------
\* scipy.signal.resample(x, num) (imported at line 6): num samples on the grid
\* i * len(x) / num of x's period.  The Fourier interpolation kernel is
\* abstracted to sample-and-hold on that grid; lengths and the dependence of
\* the output on the input are kept.  num <= 0 makes scipy raise ValueError.
resample(x, num) ==
    IF num <= 0 \/ Len(x) = 0
    THEN Raise("ValueError")
    ELSE Ok([i \in 1..num |-> x[(((i - 1) * Len(x)) \div num) + 1]])

\* librosa.util.fix_length: zero-pad or trim to `size` samples.
fix_length(x, size) ==
    [i \in 1..size |-> IF i <= Len(x) THEN x[i] ELSE 0]

\* librosa.effects.pitch_shift before its final fix_length: the time stretch
\* to round(n * pitch_factor) samples, then the resample back by
\* 1 / pitch_factor to ceil(len / pitch_factor) samples.  Both keep the
\* sample-and-hold abstraction of resample.
pitch_shift_unfixed(audio_, pitch_factor) ==
    LET n == Len(audio_)
        t == resample(audio_, Round(n * pitch_factor[1], pitch_factor[2]))
    IN  IF t.err # "none" THEN t
        ELSE resample(t.block, Ceil(Len(t.block) * pitch_factor[2], pitch_factor[1]))

\* shift_pitch (lines 14-16), pitch_factor > 0: librosa.effects.pitch_shift,
\* which ends by fixing the length of its output to len(audio).  The sample
\* rate (sr=SAMPLE_RATE) scales no length.
shift_pitch(audio_, pitch_factor) ==
    LET s == pitch_shift_unfixed(audio_, pitch_factor)
    IN  IF s.err # "none" THEN s ELSE Ok(fix_length(s.block, Len(audio_)))

\* Length of shift_formant's intermediate signal (line 21):
\* int(len(audio) * formant_factor).
formant_len(n, formant_factor) == IntOf(n * formant_factor[1], formant_factor[2])

\* Line 21: stretched = resample(audio, int(len(audio) * formant_factor)).
formant_stretched(audio_, formant_factor) ==
    resample(audio_, formant_len(Len(audio_), formant_factor))

\* shift_formant returning the stretched signal, never resampled back.
MutantFormantNoRestore(audio_, formant_factor) ==
    formant_stretched(audio_, formant_factor)

\* shift_formant (lines 18-23).
shift_formant(audio_, formant_factor) ==
    LET s == formant_stretched(audio_, formant_factor)
    IN  IF s.err # "none" THEN s ELSE resample(s.block, Len(audio_))

----------------------------------------------------------------------------
\* process_audio_block (lines 25-41), stage by stage.

Frames(m) == Len(m)
Channels(m) == Len(m[1])
Column(m, c) == [i \in 1..Len(m) |-> m[i][c]]
\* numpy flatten(), row-major.
Flatten(m) ==
    [k \in 1..(Frames(m) * Channels(m)) |->
        m[((k - 1) \div Channels(m)) + 1][((k - 1) % Channels(m)) + 1]]

\* A downmix that averages the two channels instead of taking the first.
MutantToMonoAverage(m) ==
    IF Channels(m) = 2
    THEN [i \in 1..Frames(m) |-> (m[i][1] + m[i][2]) \div 2]
    ELSE Flatten(m)

\* A mono conversion that flattens every layout, stereo included.
MutantToMonoFlatten(m) == Flatten(m)

\* Line 29: indata[:, 0] if indata.shape[1] == 2 else indata.flatten().
toMono(m) == IF Channels(m) = 2 THEN Column(m, 1) ELSE Flatten(m)

\* Line 38: processed * 1.2.
applyGain(x) == [i \in 1..Len(x) |-> (x[i] * GAIN[1]) \div GAIN[2]]

\* Line 41, right-hand side: processed.reshape(-1, 1) if indata.shape[1] == 1
\* else np.column_stack((processed, processed)).
fromMono(x, channels) ==
    IF channels = 1
    THEN [i \in 1..Len(x) |-> <<x[i]>>]
    ELSE [i \in 1..Len(x) |-> <<x[i], x[i]>>]

\* Line 41, assignment outdata[:] = value under numpy broadcasting: a value of
\* shape (r, c) fits a buffer of shape (frames, channels) iff r is frames or 1
\* and c is channels or 1; otherwise numpy raises ValueError and writes nothing.
Broadcastable(value, frames, channels) ==
    /\ Len(value) \in {frames, 1}
    /\ Len(value[1]) \in {channels, 1}

Broadcast(value, frames, channels) ==
    [i \in 1..frames |-> [j \in 1..channels |->
        value[IF Len(value) = 1 THEN 1 ELSE i][IF Len(value[1]) = 1 THEN 1 ELSE j]]]

AllCells(frames, channels) == (1..frames) \X (1..channels)

\* process_audio_block as a function of its input block: the exception it
\* raises ("none" if it returns) and the buffer content it leaves.
process_audio_block(m, out) ==
    LET p == shift_pitch(toMono(m), PITCH_SHIFT)
    IN  IF p.err # "none" THEN [err |-> p.err, out |-> out]
        ELSE LET f == shift_formant(p.block, FORMANT_SHIFT)
             IN  IF f.err # "none" THEN [err |-> f.err, out |-> out]
                 ELSE LET v == fromMono(applyGain(f.block), Channels(m))
                      IN  IF Broadcastable(v, Frames(m), Channels(m))
                          THEN [err |-> "none",
                                out |-> Broadcast(v, Frames(m), Channels(m))]
                          ELSE [err |-> "ValueError", out |-> out]

----------------------------------------------------------------------------
\* SpecFn: the functions applied to bounded inputs.

Blocks == UNION {[1..n -> SampleValues] : n \in 1..MaxFrames}
\* One block of the configured size (silence).
DefaultBlock == [i \in 1..BLOCK_SIZE |-> 0]
Matrices ==
    UNION {[1..f -> [1..c -> SampleValues]] : f \in 1..MaxFrames, c \in ChannelCounts}
\* The pre-allocated output buffer of the I/O layer, same shape as the input.
Buffer(m) == [i \in 1..Frames(m) |-> [j \in 1..Channels(m) |-> 0]]

ProgIdle ==
    /\ pc = "idle"
    /\ devices = <<>>
    /\ default_device = << <<>>, <<>> >>
    /\ handles = <<>>
    /\ stream = 0
    /\ delivered = 0
    /\ invocations = 0
    /\ ticks = 0
    /\ exit_code = -1
    /\ diag = ""

CallbackIdle ==
    /\ written = {}
    /\ printed = FALSE
    /\ input_audio = <<>>
    /\ pitched = <<>>
    /\ processed = <<>>
    /\ stages = <<>>
    /\ cb_err = "none"

FnIdle ==
    /\ op = "none"
    /\ fn_pc = "idle"
    /\ audio = <<>>
    /\ ratio = <<10, 10>>
    /\ stretched = Ok(<<>>)
    /\ result = Ok(<<>>)
    /\ indata = <<>>
    /\ status = FALSE
    /\ outdata = <<>>
    /\ CallbackIdle

FnInit ==
    /\ ProgIdle
    /\ stretched = Ok(<<>>)
    /\ result = Ok(<<>>)
    /\ CallbackIdle
    /\ \/ /\ op = "shift_formant"
          /\ fn_pc = "call"
          /\ \/ audio \in Blocks /\ ratio \in FormantRatios
             \/ audio = DefaultBlock /\ ratio = FORMANT_SHIFT
          /\ indata = <<>> /\ status = FALSE /\ outdata = <<>>
       \/ /\ op = "shift_pitch"
          /\ fn_pc = "call"
          /\ audio \in Blocks
          /\ ratio \in PitchRatios
          /\ indata = <<>> /\ status = FALSE /\ outdata = <<>>
       \/ /\ op = "process_audio_block"
          /\ fn_pc = "status"
          /\ audio = <<>> /\ ratio = <<10, 10>>
          /\ indata \in Matrices
          /\ status \in BOOLEAN
          /\ outdata = Buffer(indata)

\* shift_formant(audio, ratio), lines 18-23.
ShiftFormant ==
    /\ op = "shift_formant" /\ fn_pc = "call"
    /\ stretched' = formant_stretched(audio, ratio)
    /\ result' = shift_formant(audio, ratio)
    /\ fn_pc' = "done"
    /\ UNCHANGED <<progVars, op, audio, ratio, indata, status, outdata, written,
                   printed, input_audio, pitched, processed, stages, cb_err>>

\* shift_pitch(audio, ratio), lines 14-16.
ShiftPitch ==
    /\ op = "shift_pitch" /\ fn_pc = "call"
    /\ result' = shift_pitch(audio, ratio)
    /\ fn_pc' = "done"
    /\ UNCHANGED <<progVars, op, audio, ratio, stretched, indata, status, outdata,
                   written, printed, input_audio, pitched, processed, stages, cb_err>>

\* Lines 26-27: if status: print(status).
CbStatus ==
    /\ op = "process_audio_block" /\ fn_pc = "status"
    /\ printed' = status
    /\ fn_pc' = "mono"
    /\ UNCHANGED <<progVars, op, audio, ratio, stretched, result, indata, status,
                   outdata, written, input_audio, pitched, processed, stages, cb_err>>

\* Line 29.
CbMono ==
    /\ op = "process_audio_block" /\ fn_pc = "mono"
    /\ input_audio' = toMono(indata)
    /\ stages' = Append(stages, "mono")
    /\ fn_pc' = "pitch"
    /\ UNCHANGED <<progVars, op, audio, ratio, stretched, result, indata, status,
                   outdata, written, printed, pitched, processed, cb_err>>

\* Line 32.
CbPitch ==
    /\ op = "process_audio_block" /\ fn_pc = "pitch"
    /\ LET r == shift_pitch(input_audio, PITCH_SHIFT)
       IN  /\ stages' = Append(stages, "pitch")
           /\ IF r.err = "none"
              THEN pitched' = r.block /\ fn_pc' = "formant" /\ cb_err' = cb_err
              ELSE pitched' = pitched /\ fn_pc' = "done" /\ cb_err' = r.err
    /\ UNCHANGED <<progVars, op, audio, ratio, stretched, result, indata, status,
                   outdata, written, printed, input_audio, processed>>

\* Line 35.
CbFormant ==
    /\ op = "process_audio_block" /\ fn_pc = "formant"
    /\ LET r == shift_formant(pitched, FORMANT_SHIFT)
       IN  /\ stages' = Append(stages, "formant")
           /\ IF r.err = "none"
              THEN processed' = r.block /\ fn_pc' = "gain" /\ cb_err' = cb_err
              ELSE processed' = processed /\ fn_pc' = "done" /\ cb_err' = r.err
    /\ UNCHANGED <<progVars, op, audio, ratio, stretched, result, indata, status,
                   outdata, written, printed, input_audio, pitched>>

\* Line 38.
CbGain ==
    /\ op = "process_audio_block" /\ fn_pc = "gain"
    /\ processed' = applyGain(processed)
    /\ stages' = Append(stages, "gain")
    /\ fn_pc' = "write"
    /\ UNCHANGED <<progVars, op, audio, ratio, stretched, result, indata, status,
                   outdata, written, printed, input_audio, pitched, cb_err>>

\* Line 41.
CbWrite ==
    /\ op = "process_audio_block" /\ fn_pc = "write"
    /\ LET v == fromMono(processed, Channels(indata))
       IN  /\ stages' = Append(stages, "reconstruct")
           /\ IF Broadcastable(v, Frames(outdata), Channels(outdata))
              THEN /\ outdata' = Broadcast(v, Frames(outdata), Channels(outdata))
                   /\ written' = AllCells(Frames(outdata), Channels(outdata))
                   /\ cb_err' = cb_err
              ELSE /\ UNCHANGED <<outdata, written>>
                   /\ cb_err' = "ValueError"
    /\ fn_pc' = "done"
    /\ UNCHANGED <<progVars, op, audio, ratio, stretched, result, indata, status,
                   printed, input_audio, pitched, processed>>

FnNext ==
    \/ ShiftFormant
    \/ ShiftPitch
    \/ CbStatus
    \/ CbMono
    \/ CbPitch
    \/ CbFormant
    \/ CbGain
    \/ CbWrite

SpecFn == FnInit /\ [][FnNext]_vars

----------------------------------------------------------------------------
\* Spec: the run of main().

ChannelCaps == {0, 2}
DeviceLists ==
    UNION {{[i \in 1..n |-> [index |-> i - 1,
                             max_input_channels |-> f[i][1],
                             max_output_channels |-> f[i][2]]] :
                f \in [1..n -> ChannelCaps \X ChannelCaps]} : n \in 0..MaxDevices}
DefaultChoices(devs) == {<<>>} \cup {<<i - 1>> : i \in 1..Len(devs)}

\* Lines 52-53.
input_device == IF default_device[1] # <<>> THEN default_device[1][1] ELSE devices[1].index
output_device == IF default_device[2] # <<>> THEN default_device[2][1] ELSE devices[1].index

\* Lines 56 and 59.
NoInput(dev) == dev.index = input_device /\ dev.max_input_channels = 0
NoOutput(dev) == dev.index = output_device /\ dev.max_output_channels = 0

\* Lines 63-68: sd.Stream(samplerate, blocksize, channels=1, device); no
\* callback argument is passed, so the stream has none.
NewStream == [callback |-> "None", state |-> "created", stops |-> 0, closes |-> 0]

\* setup() (lines 43-72).  query_ok: sd.query_devices() does not raise;
\* open_ok: sd.Stream(...) does not raise.  Every failure ends in exit(1).
setup(query_ok, open_ok) ==
    IF ~query_ok THEN [ok |-> FALSE, diag |-> "Error setting up audio"]
    ELSE IF devices = <<>> THEN [ok |-> FALSE, diag |-> "No audio devices detected"]
    ELSE IF \E i \in 1..Len(devices) : NoInput(devices[i]) \/ NoOutput(devices[i])
    THEN LET first == CHOOSE i \in 1..Len(devices) :
                          /\ NoInput(devices[i]) \/ NoOutput(devices[i])
                          /\ \A j \in 1..(i - 1) :
                                 ~(NoInput(devices[j]) \/ NoOutput(devices[j]))
         IN  IF NoInput(devices[first])
             THEN [ok |-> FALSE, diag |-> "input device does not support input"]
             ELSE [ok |-> FALSE, diag |-> "output device does not support output"]
    ELSE IF ~open_ok THEN [ok |-> FALSE, diag |-> "Error setting up audio"]
    ELSE [ok |-> TRUE, diag |-> "Starting real-time voice changer"]

Init ==
    /\ FnIdle
    /\ pc = "main"
    /\ devices \in DeviceLists
    /\ default_device \in DefaultChoices(devices) \X DefaultChoices(devices)
    /\ handles = <<>>
    /\ stream = 0
    /\ delivered = 0
    /\ invocations = 0
    /\ ticks = 0
    /\ exit_code = -1
    /\ diag = ""

\* main, line 86: setup(), its return value dropped.
MainSetup ==
    /\ pc = "main"
    /\ \E query_ok \in BOOLEAN, open_ok \in BOOLEAN :
         LET r == setup(query_ok, open_ok)
         IN  /\ diag' = r.diag
             /\ IF r.ok
                THEN /\ handles' = Append(handles, NewStream)
                     /\ pc' = "update_loop"
                     /\ exit_code' = exit_code
                ELSE /\ handles' = handles
                     /\ pc' = "exited"
                     /\ exit_code' = 1
    /\ UNCHANGED <<devices, default_device, stream, delivered, invocations, ticks, fnVars>>

\* update_loop, line 75: stream = setup().
LoopSetup ==
    /\ pc = "update_loop"
    /\ \E query_ok \in BOOLEAN, open_ok \in BOOLEAN :
         LET r == setup(query_ok, open_ok)
         IN  /\ diag' = r.diag
             /\ IF r.ok
                THEN /\ handles' = Append(handles, NewStream)
                     /\ stream' = Len(handles) + 1
                     /\ pc' = "start"
                     /\ exit_code' = exit_code
                ELSE /\ UNCHANGED <<handles, stream>>
                     /\ pc' = "exited"
                     /\ exit_code' = 1
    /\ UNCHANGED <<devices, default_device, delivered, invocations, ticks, fnVars>>

\* update_loop, line 76: stream.start().
StreamStart ==
    /\ pc = "start"
    /\ handles' = [handles EXCEPT ![stream].state = "active"]
    /\ pc' = "running"
    /\ UNCHANGED <<devices, default_device, stream, delivered, invocations, ticks,
                   exit_code, diag, fnVars>>

\* Line 76 raising (PortAudio cannot start the device): nothing catches it.
StreamStartFails ==
    /\ pc = "start"
    /\ pc' = "crashed"
    /\ exit_code' = 1
    /\ UNCHANGED <<devices, default_device, handles, stream, delivered, invocations,
                   ticks, diag, fnVars>>

\* Lines 78-79: one iteration of the keep-alive loop.
Sleep ==
    /\ pc = "running"
    /\ ticks < MaxTicks
    /\ ticks' = ticks + 1
    /\ UNCHANGED <<pc, devices, default_device, handles, stream, delivered,
                   invocations, exit_code, diag, fnVars>>

\* The audio I/O layer has one hardware block for the active stream.  It calls
\* the stream's callback if the stream has one; a stream without callback
\* only buffers the block for a blocking read.
Deliver ==
    /\ pc = "running"
    /\ handles[stream].state = "active"
    /\ delivered < MaxBlocks
    /\ delivered' = delivered + 1
    /\ invocations' = IF handles[stream].callback = "process_audio_block"
                      THEN invocations + 1
                      ELSE invocations
    /\ UNCHANGED <<pc, devices, default_device, handles, stream, ticks, exit_code,
                   diag, fnVars>>

\* Lines 80-83: the user interrupt surfaces as KeyboardInterrupt inside the
\* try block of update_loop, i.e. while the coroutine's own frame executes.
KeyboardInterruptCaught ==
    /\ pc = "running"
    /\ handles' = [handles EXCEPT ![stream] =
                      [@ EXCEPT !.state = "closed", !.stops = @ + 1, !.closes = @ + 1]]
    /\ diag' = "Voice changer stopped"
    /\ pc' = "done"
    /\ exit_code' = 0
    /\ UNCHANGED <<devices, default_device, stream, delivered, invocations, ticks, fnVars>>

\* The user interrupt while update_loop is suspended in `await asyncio.sleep`
\* (line 79) under asyncio.run (line 98): the event loop, not the coroutine,
\* receives it and the task is cancelled; CancelledError is raised at the
\* await, `except KeyboardInterrupt` (line 80) does not match it, and it
\* propagates out of update_loop and main.  Lines 81-82 do not run.
InterruptCancelsTask ==
    /\ pc = "running"
    /\ pc' = "interrupted"
    /\ exit_code' = 130
    /\ UNCHANGED <<devices, default_device, handles, stream, delivered, invocations,
                   ticks, diag, fnVars>>

Next ==
    \/ MainSetup
    \/ LoopSetup
    \/ StreamStart
    \/ StreamStartFails
    \/ Sleep
    \/ Deliver
    \/ KeyboardInterruptCaught
    \/ InterruptCancelsTask

Spec == Init /\ [][Next]_vars

----------------------------------------------------------------------------
\* Properties of the run of main() (checked under Spec).

StopSignalled == pc \in {"done", "interrupted"}

\* C1: while the stream is running, every hardware block delivered by the I/O
\* layer causes exactly one invocation of process_audio_block, the stream that
\* update_loop starts being bound to that callback.
C1_EveryBlockInvokesCallback ==
    /\ stream # 0 => handles[stream].callback = "process_audio_block"
    /\ invocations = delivered

\* A block has been delivered to the running stream.
C1_BlockDelivered == pc = "running" /\ delivered > 0

\* C4: once a stop signal has arrived while the stream was running, the
\* started stream has been stopped exactly once and closed exactly once.
C4_StoppedAndReleasedOnce ==
    StopSignalled =>
        /\ handles[stream].state = "closed"
        /\ handles[stream].stops = 1
        /\ handles[stream].closes = 1

\* A stop signal has arrived while the stream was running.
C4_StopSignalArrived == StopSignalled /\ delivered > 0

\* C10: at most one device handle is ever created, and when the run that
\* started a stream is over every created handle has been closed.
C10_SingleHandleStartedAndClosed ==
    /\ Len(handles) <= 1
    /\ StopSignalled => \A h \in 1..Len(handles) : handles[h].state = "closed"

\* update_loop has obtained its stream.
C10_LoopHasStream == stream # 0

\* No stage of process_audio_block ever runs in a run of main(): the stream
\* has no callback, so no stage can raise while the stream is running.
NoStageRunsWhileRunning == invocations = 0

\* A closed stream is never started again.
ClosedIsTerminal ==
    [][\A h \in 1..Len(handles) :
          handles[h].state = "closed" => handles'[h].state = "closed"]_vars

----------------------------------------------------------------------------
\* Properties of the functions (checked under SpecFn).

FormantDone == op = "shift_formant" /\ fn_pc = "done"
PitchDone == op = "shift_pitch" /\ fn_pc = "done"
InCallback == op = "process_audio_block"
CallbackDone == InCallback /\ fn_pc = "done"
AllStages == <<"mono", "pitch", "formant", "gain", "reconstruct">>

\* The ratio is positive and the nearest integer to len * ratio is at least 2.
ValidRatio(n, r) == r[1] > 0 /\ Round(n * r[1], r[2]) >= 2

\* C2: for every block length n >= 1 and every valid ratio, shift_formant and
\* shift_pitch return a block of exactly n samples, and inside
\* process_audio_block the block has the same length after every stage.
C2_LengthPreserved ==
    /\ (FormantDone /\ ValidRatio(Len(audio), ratio)) =>
           result.err = "none" /\ Len(result.block) = Len(audio)
    /\ (PitchDone /\ ValidRatio(Len(audio), ratio)) =>
           result.err = "none" /\ Len(result.block) = Len(audio)
    /\ (InCallback /\ cb_err = "none") =>
           /\ Len(stages) >= 2 => Len(pitched) = Len(input_audio)
           /\ Len(stages) >= 3 => Len(processed) = Len(input_audio)

\* shift_formant has stretched a 2-sample block to 5 samples and returned 2.
C2_Witness ==
    /\ FormantDone /\ Len(audio) = 2 /\ ratio = <<25, 10>>
    /\ Len(stretched.block) = 5 /\ Len(result.block) = 2

\* C3: for a 1- or 2-channel input, with or without status flags, the callback
\* runs mono conversion, pitch shift, formant shift, gain and channel
\* reconstruction in that order without raising, the status only being
\* printed, and once it has returned every cell of outdata (frames rows by the
\* input's channel count) holds the processed sample of its row.
C3_CallbackFillsOutput ==
    (InCallback /\ Channels(indata) \in {1, 2}) =>
        /\ cb_err = "none"
        /\ fn_pc # "status" => printed = status
        /\ Len(stages) <= Len(AllStages)
        /\ stages = SubSeq(AllStages, 1, Len(stages))
        /\ fn_pc = "done" =>
               /\ stages = AllStages
               /\ written = AllCells(Frames(indata), Channels(indata))
               /\ Len(outdata) = Frames(indata)
               /\ \A i \in 1..Frames(indata) :
                      /\ Len(outdata[i]) = Channels(indata)
                      /\ \A j \in 1..Channels(indata) : outdata[i][j] = processed[i]

\* The callback has returned for a stereo block with status flags set.
C3_Witness ==
    /\ CallbackDone /\ status /\ printed
    /\ Channels(indata) = 2 /\ Frames(indata) = MaxFrames
    /\ written # {}

\* C5: a channel count that is neither 1 nor 2 fails with
\* UnsupportedChannelLayout: no mono block is produced for it and no output is
\* written for it.
C5_UnsupportedLayoutRejected ==
    (InCallback /\ Channels(indata) \notin {1, 2}) =>
        /\ input_audio = <<>>
        /\ written = {}
        /\ fn_pc = "done" => cb_err = "UnsupportedChannelLayout"

\* The callback has finished on a 3-channel block.
C5_ThreeChannelsDone == CallbackDone /\ Channels(indata) = 3

\* C6: shift_formant fails, returning no block, whenever the ratio is <= 0
\* or the intermediate length round(len * ratio) is below 2.
C6_ShortIntermediateRejected ==
    (FormantDone /\ ~ValidRatio(Len(audio), ratio)) => result.err # "none"

\* shift_formant has been applied with an intermediate length below 2.
C6_ShortIntermediateApplied == FormantDone /\ ~ValidRatio(Len(audio), ratio)

\* C7 as stated: the intermediate signal of shift_formant has length
\* round(n * r), 1229 samples for n = 1024 and r = 1.2, and the result has n.
C7_IntermediateIsRounded ==
    (FormantDone /\ ValidRatio(Len(audio), ratio)) =>
        /\ stretched.err = "none"
        /\ Len(stretched.block) = Round(Len(audio) * ratio[1], ratio[2])
        /\ (Len(audio) = 1024 /\ ratio = <<12, 10>>) => Len(stretched.block) = 1229
        /\ Len(result.block) = Len(audio)

\* C7 amended: the intermediate signal of shift_formant has length
\* int(n * r), the product truncated toward zero: the k with
\* k <= n * r < k + 1; 1228 samples for n = 1024 and r = 1.2.  The second
\* resample targets exactly n.
C7_IntermediateIsTruncated ==
    (FormantDone /\ ValidRatio(Len(audio), ratio)) =>
        /\ stretched.err = "none"
        /\ Len(stretched.block) * ratio[2] <= Len(audio) * ratio[1]
        /\ Len(audio) * ratio[1] < (Len(stretched.block) + 1) * ratio[2]
        /\ (Len(audio) = 1024 /\ ratio = <<12, 10>>) => Len(stretched.block) = 1228
        /\ result.err = "none"
        /\ Len(result.block) = Len(audio)

\* shift_formant has been applied to a block of the configured size with the
\* configured formant ratio.
C7_Witness ==
    /\ FormantDone /\ Len(audio) = BLOCK_SIZE /\ ratio = FORMANT_SHIFT
    /\ Len(stretched.block) = 1228 /\ Len(result.block) = BLOCK_SIZE

\* Input blocks of the shape of m that agree with m on channel 0.
SameChannel0(m) ==
    {a \in [1..Frames(m) -> [1..Channels(m) -> SampleValues]] :
        \A i \in 1..Frames(m) : a[i][1] = m[i][1]}

\* C8: for a 2-channel input the two output columns are identical and the
\* output depends on input channel 0 only: every input that agrees on
\* channel 0 yields the same output.  For a 1-channel input the mono block is
\* the input column and the output has a single column.
C8_OutputFromChannel0Only ==
    CallbackDone =>
        /\ Channels(indata) = 2 =>
               /\ cb_err = "none"
               /\ \A i \in 1..Frames(indata) :
                      Len(outdata[i]) = 2 /\ outdata[i][1] = outdata[i][2]
               /\ \A a \in SameChannel0(indata) :
                      process_audio_block(a, Buffer(a)) = [err |-> "none", out |-> outdata]
        /\ Channels(indata) = 1 =>
               /\ cb_err = "none"
               /\ input_audio = Column(indata, 1)
               /\ \A i \in 1..Frames(indata) : Len(outdata[i]) = 1

\* The callback has returned for a stereo block whose channels differ.
C8_Witness ==
    /\ CallbackDone /\ Channels(indata) = 2 /\ cb_err = "none"
    /\ \E i \in 1..Frames(indata) : indata[i][1] # indata[i][2]
    /\ \E i \in 1..Frames(indata) : outdata[i][1] # 0

====
